---- MODULE Spec2Model ----
(***************************************************************************)
(* A model of the conversation engine of isaacphi/wheel (slop):            *)
(*   - the message store behind repository.MessageRepository,              *)
(*   - MessageService.SendMessage (internal/message/messageService.go),    *)
(*   - the agent's tool loop around it,                                    *)
(*   - the CLI sendMessage wrapper with its goroutine, error channel and   *)
(*     cancellation select,                                                *)
(*   - MessageService.DeleteThread and DeleteLastMessages,                 *)
(*   - llm.NewClient and Client.SendMessage (internal/llm/llmClient.go),   *)
(*   - the stream callback that classifies chunks,                         *)
(*   - CLIStreamHandler.formatJSON, the incremental JSON formatter.        *)
(***************************************************************************)
EXTENDS Integers, Sequences, FiniteSets, TLC

\* ------------------------------------------------------------------ bounds

\* CLI sends (sendMessage calls) started in one behaviour, over all processes
MaxSends == 2

\* tool calls carried by one provider response
MaxTools == 1

\* chunks handed to one SendMessage call by the provider
MaxChunks == 3

\* length in bytes of the argument text fed to the formatter
MaxLen == 3

\* the largest count given to DeleteLastMessages
MaxCount == 2

\* choices in one provider reply
MaxChoices == 2
MaxDoc == 9
MaxInput == 4

\* ---------------------------------------------------------------- constants

\* the zero uuid / a nil *uuid.UUID
NilID == 0

\* the configured maximum of tool-call cycles per turn
MaxToolCycles == 1

\* CLI processes that may run against the same database
Procs == {"p1", "p2"}

\* thread ids a caller may name (a thread exists once NewThread created it)
ThreadIds == {"T1", "T2"}

\* ------------------------------------------------------------------- state

VARIABLES
    threads,    \* store: the set of existing thread ids
    msgs,       \* store: the persisted messages, in creation order
    nextId,     \* store: the next fresh message id
    cli,        \* per process: where sendCmd/sendMessage stands
    cliResult,  \* per process: what the last sendMessage returned
    ctxDone,    \* per process: the signal context is cancelled
    errCh,      \* per process: the buffered channel errCh
    sends,      \* number of sendMessage calls started
    g,          \* per process: the goroutine running agentService.SendMessage
    cancelMark  \* per process: nextId when cancellation hit an awaited provider call

svcVars == <<threads, msgs, nextId, cli, cliResult, ctxDone, errCh, sends, g, cancelMark>>

VARIABLES
    currentFunctionId,  \* streamCallback: the closure variable of line 82
    chunks,             \* the chunks the provider has streamed so far
    events,             \* the StreamHandler calls made so far, in order
    lastRet,            \* what the last streamCallback call returned
    streamOpen          \* the provider still streams (no callback error yet)

strVars == <<currentFunctionId, chunks, events, lastRet, streamOpen>>

VARIABLES
    h,          \* CLIStreamHandler: inQuote, escaped, indentLevel, inArray, isValue
    fmtH0,      \* the handler state before the first slice
    fmtIn,      \* the whole argument text, as bytes
    fmtPos,     \* how many of its bytes have been fed
    fmtOut,     \* what formatJSON returned so far, concatenated
    fmtSlices,  \* number of formatJSON calls made
    fmtAligned, \* every cut so far fell between two characters of fmtIn
    fmtTrace    \* per character handled: state before, state after, output

fmtVars == <<h, fmtH0, fmtIn, fmtPos, fmtOut, fmtSlices, fmtAligned, fmtTrace>>

VARIABLES
    modelCfg,   \* config.Model: the provider name the client is built for
    sdkErr,     \* what the provider SDK's constructor will answer
    newResult,  \* what message.New returned: the service, or the error
    reply,      \* what GenerateContent will answer to the next call
    response,   \* what Client.SendMessage returned
    persisted   \* the assistant message SendMessage stored for that response

llmVars == <<modelCfg, sdkErr, newResult, reply, response, persisted>>

VARIABLES
    lastDel,    \* the DeleteThread calls so far: threads deleted, outcomes on absent ones
    resetLog,   \* the Reset calls made, the handler before and after the last
    parse,      \* where a JSON parser stands in the arguments printed so far
    cmd         \* one run of sendCmd: its input, its position, what it did

auxVars == <<lastDel, resetLog, parse, cmd>>

\* ------------------------------------------------------------ the store

Last(s) == s[Len(s)]

ThreadMsgs(t) == SelectSeq(msgs, LAMBDA m : m.thread = t)

MsgIds == {msgs[i].id : i \in 1..Len(msgs)}

MsgById(id) == CHOOSE m \in {msgs[i] : i \in 1..Len(msgs)} : m.id = id

\* the ancestor chain of message id, oldest first; a parent that is gone ends it
RECURSIVE Chain(_, _)
Chain(id, fuel) ==
    IF id = NilID \/ id \notin MsgIds \/ fuel = 0 THEN <<>>
    ELSE Append(Chain(MsgById(id).parent, fuel - 1), MsgById(id))

\* a store that resolves a reference without looking at its thread
GetMessagesAnyThread(t, ref) ==
    IF ref = NilID
    THEN IF ThreadMsgs(t) = <<>>
         THEN [err |-> FALSE, val |-> <<>>]
         ELSE [err |-> FALSE, val |-> Chain(Last(ThreadMsgs(t)).id, Len(msgs))]
    ELSE IF ref \in MsgIds
         THEN [err |-> FALSE, val |-> Chain(ref, Len(msgs))]
         ELSE [err |-> TRUE, val |-> <<>>]

\* GetMessages(ctx, threadID, messageID, false): the chain that ends at the
\* reference message, or at the most recently created message of the thread
GetMessages(t, ref) ==
    IF ref = NilID
    THEN IF ThreadMsgs(t) = <<>>
         THEN [err |-> FALSE, val |-> <<>>]
         ELSE [err |-> FALSE, val |-> Chain(Last(ThreadMsgs(t)).id, Len(msgs))]
    ELSE IF ref \in MsgIds /\ MsgById(ref).thread = t
         THEN [err |-> FALSE, val |-> Chain(ref, Len(msgs))]
         ELSE [err |-> TRUE, val |-> <<>>]

\* AddMessageToThread(ctx, threadID, msg): the store assigns the id
Stored(m) == [m EXCEPT !.id = nextId]

\* ------------------------------------------- MessageService.SendMessage

IdleG ==
    [pc |-> "idle", ThreadID |-> "T1", ParentID |-> NilID, implicit |-> TRUE,
     userID |-> NilID, aiID |-> NilID, nTools |-> 0,
     cycles |-> 0, err |-> "", hist |-> <<>>, sent |-> <<>>,
     seenLatest |-> NilID]

\* buildMessageHistory, llmClient.go lines 69-81: one part per message, in
\* order; of names the message whose Content the part carries
buildMessageHistory(messages) ==
    [i \in 1..Len(messages) |->
        [role |-> IF messages[i].role = "assistant" THEN "ai" ELSE "human",
         of |-> messages[i].id]]

\* the part made of the content argument; NilID: of no stored message
ContentPart == [role |-> "human", of |-> NilID]

\* a client that puts the new content in front of the history
ProviderContextContentFirst(history) ==
    <<ContentPart>> \o buildMessageHistory(history)

\* Client.SendMessage, llmClient.go lines 179-182: what GenerateContent is given
ProviderContext(history) == Append(buildMessageHistory(history), ContentPart)

\* lines 55-58: the parent taken when opts.ParentID is nil
ImplicitParentFirst(messages) ==
    IF Len(messages) > 0 THEN messages[1].id ELSE NilID

ImplicitParent(messages) ==
    IF Len(messages) > 0 THEN Last(messages).id ELSE NilID

\* a human message that is given the tool calls of the response
userMsgWithToolCalls(p) ==
    [id |-> NilID, thread |-> g[p].ThreadID, parent |-> g[p].ParentID,
     role |-> "human", tools |-> g[p].nTools, implicit |-> g[p].implicit]

\* lines 69-74: userMsg, built in memory; its ID is still the zero uuid
userMsg(p) ==
    [id |-> NilID, thread |-> g[p].ThreadID, parent |-> g[p].ParentID,
     role |-> "human", tools |-> 0, implicit |-> g[p].implicit]

\* line 121: aiMsg.ParentID = &userMsg.ID, a pointer read when aiMsg is stored
AiParentByValue(p) == NilID

\* an aiMsg that points at its own ID
AiParentSelf(p) == nextId

AiParent(p) == g[p].userID

\* lines 119-127: aiMsg
aiMsg(p) ==
    [id |-> NilID, thread |-> g[p].ThreadID, parent |-> AiParent(p),
     role |-> "assistant", tools |-> g[p].nTools, implicit |-> FALSE]

\* SendMessage returns; only the outcome and the cycle count outlive the call
Fail(p, why) ==
    g' = [g EXCEPT ![p] = [IdleG EXCEPT !.pc = "ag_ret", !.err = why,
                                        !.cycles = g[p].cycles]]

\* line 44: GetThreadByID
SM_GetThread(p) ==
    /\ g[p].pc = "sm_getThread"
    /\ \/ /\ g[p].ThreadID \in threads
          /\ g' = [g EXCEPT ![p].pc =
                      IF g[p].ParentID = NilID THEN "sm_lookup" ELSE "sm_history"]
       \/ Fail(p, "failed to get thread")
    /\ UNCHANGED <<threads, msgs, nextId, cli, cliResult, ctxDone, errCh, sends, cancelMark>>
    /\ UNCHANGED <<strVars, fmtVars, llmVars, auxVars>>

\* lines 50-59: no parent given, take the most recent message of the thread
SM_LookupParent(p) ==
    /\ g[p].pc = "sm_lookup"
    /\ \/ LET r == GetMessages(g[p].ThreadID, NilID) IN
          /\ ~r.err
          /\ g' = [g EXCEPT ![p].pc = "sm_history",
                            ![p].ParentID = ImplicitParent(r.val),
                            ![p].seenLatest =
                                IF ThreadMsgs(g[p].ThreadID) = <<>> THEN NilID
                                ELSE Last(ThreadMsgs(g[p].ThreadID)).id]
       \/ Fail(p, "failed to get messages")
    /\ UNCHANGED <<threads, msgs, nextId, cli, cliResult, ctxDone, errCh, sends, cancelMark>>
    /\ UNCHANGED <<strVars, fmtVars, llmVars, auxVars>>

\* lines 62-65 and 108: the history is read and the provider call dispatched
SM_GetHistory(p) ==
    /\ g[p].pc = "sm_history"
    /\ \/ LET r == GetMessages(g[p].ThreadID, g[p].ParentID) IN
          /\ ~r.err
          /\ g' = [g EXCEPT ![p].pc = "sm_await",
                            ![p].hist = [i \in 1..Len(r.val) |-> r.val[i].id],
                            ![p].sent = ProviderContext(r.val)]
       \/ Fail(p, "failed to get conversation history")
    /\ UNCHANGED <<threads, msgs, nextId, cli, cliResult, ctxDone, errCh, sends, cancelMark>>
    /\ UNCHANGED <<strVars, fmtVars, llmVars, auxVars>>

\* lines 108-116: the provider call returns; the tool calls are marshalled
SM_ProviderReturns(p) ==
    /\ g[p].pc = "sm_await"
    /\ \/ Fail(p, "failed to stream AI response")
       \/ \E n \in 1..MaxTools : Fail(p, "Failed to parse ToolCalls")
       \/ \E n \in 0..MaxTools :
            g' = [g EXCEPT ![p].pc = "sm_addUser", ![p].nTools = n,
                              ![p].hist = <<>>, ![p].sent = <<>>]
    /\ UNCHANGED <<threads, msgs, nextId, cli, cliResult, ctxDone, errCh, sends, cancelMark>>
    /\ UNCHANGED <<strVars, fmtVars, llmVars, auxVars>>

\* lines 129-131: AddMessageToThread(userMsg)
SM_AddUser(p) ==
    /\ g[p].pc = "sm_addUser"
    /\ \/ /\ g[p].ThreadID \in threads
          /\ msgs' = Append(msgs, Stored(userMsg(p)))
          /\ nextId' = nextId + 1
          /\ g' = [g EXCEPT ![p].pc = "sm_addAI", ![p].userID = nextId]
       \/ /\ Fail(p, "store")
          /\ UNCHANGED <<msgs, nextId>>
    /\ UNCHANGED <<threads, cli, cliResult, ctxDone, errCh, sends, cancelMark>>
    /\ UNCHANGED <<strVars, fmtVars, llmVars, auxVars>>

\* lines 132-136: AddMessageToThread(aiMsg); return aiMsg
SM_AddAI(p) ==
    /\ g[p].pc = "sm_addAI"
    /\ \/ /\ g[p].ThreadID \in threads
          /\ msgs' = Append(msgs, Stored(aiMsg(p)))
          /\ nextId' = nextId + 1
          /\ g' = [g EXCEPT ![p].pc = "ag_check", ![p].aiID = nextId,
                            ![p].seenLatest = NilID]
       \/ /\ Fail(p, "store")
          /\ UNCHANGED <<msgs, nextId>>
    /\ UNCHANGED <<threads, cli, cliResult, ctxDone, errCh, sends, cancelMark>>
    /\ UNCHANGED <<strVars, fmtVars, llmVars, auxVars>>

\* ------------------------------------------------- Agent.SendMessage

\* the bound on tool-call cycles
LoopNeverExceeded(cycles) == FALSE

LoopExceeded(cycles) == cycles >= MaxToolCycles

\* the response carries no tool call: the turn is done; the cycle count is
\* at the maximum: ToolLoopExceeded; otherwise the tools are executed
Ag_Check(p) ==
    /\ g[p].pc = "ag_check"
    /\ IF g[p].nTools = 0
       THEN Fail(p, "")
       ELSE IF LoopExceeded(g[p].cycles)
            THEN Fail(p, "ToolLoopExceeded")
            ELSE g' = [g EXCEPT ![p].pc = "ag_tools"]
    /\ UNCHANGED <<threads, msgs, nextId, cli, cliResult, ctxDone, errCh, sends, cancelMark>>
    /\ UNCHANGED <<strVars, fmtVars, llmVars, auxVars>>

\* the tool calls are executed, their results (or errors) folded into a
\* follow-up message that answers the assistant message, and the provider is
\* called again; a cancelled context abandons the turn instead
Ag_Tools(p) ==
    /\ g[p].pc = "ag_tools"
    /\ IF ctxDone[p]
       THEN Fail(p, "Cancelled")
       ELSE g' = [g EXCEPT ![p].pc = "sm_getThread",
                           ![p].cycles = g[p].cycles + 1,
                           ![p].ParentID = g[p].aiID,
                           ![p].implicit = FALSE,
                           ![p].userID = NilID,
                           ![p].aiID = NilID,
                           ![p].nTools = 0]
    /\ UNCHANGED <<threads, msgs, nextId, cli, cliResult, ctxDone, errCh, sends, cancelMark>>
    /\ UNCHANGED <<strVars, fmtVars, llmVars, auxVars>>

\* ----------------------------------- deleting threads and messages

\* repository DeleteThread: the thread goes, and its messages with it
StoreDeleteThread(t) ==
    /\ threads' = threads \ {t}
    /\ msgs' = SelectSeq(msgs, LAMBDA m : m.thread # t)

\* what DeleteThread calls did so far: the threads they deleted, and for the
\* calls that named no existing thread, what they returned (err) and how
\* often they called the store's DeleteThread (storeCalls)
DeleteOutcome(t, err, storeCalls) ==
    IF t \in threads
    THEN [lastDel EXCEPT !.gone = @ \cup {t}]
    ELSE [lastDel EXCEPT !.absent = @ \cup {[err |-> err, storeCalls |-> storeCalls]}]

\* a service that hands every request to the store
ThreadFoundAlways(t) == TRUE

\* line 206: GetThreadByID(ctx, threadID) returns no error
ThreadFound(t) == t \in threads

\* MessageService.DeleteThread, lines 204-211
DeleteThread(t) ==
    /\ IF ThreadFound(t)
       THEN /\ StoreDeleteThread(t)
            /\ lastDel' = DeleteOutcome(t, FALSE, 1)
       ELSE /\ UNCHANGED <<threads, msgs>>
            /\ lastDel' = DeleteOutcome(t, TRUE, 0)
    /\ UNCHANGED <<nextId, cli, cliResult, ctxDone, errCh, sends, g, cancelMark>>
    /\ UNCHANGED <<strVars, fmtVars, llmVars, resetLog, parse, cmd>>

\* the positions in msgs of the count most recently created messages of t
LastPositions(t, count) ==
    LET of == {i \in 1..Len(msgs) : msgs[i].thread = t}
    IN  {i \in of : Cardinality({j \in of : j > i}) < count}

\* seq without the elements at the positions in gone
RECURSIVE Without(_, _, _)
Without(seq, gone, i) ==
    IF i > Len(seq) THEN <<>>
    ELSE (IF i \in gone THEN <<>> ELSE <<seq[i]>>) \o Without(seq, gone, i + 1)

\* MessageService.DeleteLastMessages, lines 219-221: the store deletes the
\* count most recent messages of the thread
DeleteLastMessages(t, count) ==
    /\ msgs' = Without(msgs, LastPositions(t, count), 1)
    /\ UNCHANGED <<threads, nextId, cli, cliResult, ctxDone, errCh, sends, g, cancelMark>>
    /\ UNCHANGED <<strVars, fmtVars, llmVars, auxVars>>

\* ------------- the CLI send command (in internal/config/defaults.slop.yaml)

\* NewThread: sendCmd creates a thread when neither --thread nor --continue
NewThread(t) ==
    /\ t \notin threads
    /\ threads' = threads \cup {t}
    /\ UNCHANGED <<msgs, nextId, cli, cliResult, ctxDone, errCh, sends, g, cancelMark>>
    /\ UNCHANGED <<strVars, fmtVars, llmVars, auxVars>>

\* sendMessage, lines 247-267: the channel is made and the goroutine started
CliSend(p, t, parent) ==
    /\ cli[p] = "idle"
    /\ sends < MaxSends
    /\ sends' = sends + 1
    /\ cli' = [cli EXCEPT ![p] = "select"]
    /\ cliResult' = [cliResult EXCEPT ![p] = "none"]
    /\ errCh' = [errCh EXCEPT ![p] = "empty"]
    /\ g' = [g EXCEPT ![p] = [IdleG EXCEPT !.pc = "sm_getThread", !.ThreadID = t,
                                           !.ParentID = parent,
                                           !.implicit = (parent = NilID)]]
    /\ cancelMark' = [cancelMark EXCEPT ![p] = NilID]
    /\ UNCHANGED <<threads, msgs, nextId, ctxDone>>
    /\ UNCHANGED <<strVars, fmtVars, llmVars, auxVars>>

\* lines 258-266: the goroutine sends its outcome on errCh (capacity 1)
G_Return(p) ==
    /\ g[p].pc = "ag_ret"
    /\ errCh' = [errCh EXCEPT ![p] = IF g[p].err = "" THEN "nil" ELSE "err"]
    /\ g' = [g EXCEPT ![p].pc = "done"]
    /\ UNCHANGED <<threads, msgs, nextId, cli, cliResult, ctxDone, sends, cancelMark>>
    /\ UNCHANGED <<strVars, fmtVars, llmVars, auxVars>>

\* lines 270-272: case <-ctx.Done()
CliSelectCtx(p) ==
    /\ cli[p] = "select"
    /\ ctxDone[p]
    /\ cliResult' = [cliResult EXCEPT ![p] = "Cancelled"]
    /\ cli' = [cli EXCEPT ![p] = "exited"]
    /\ UNCHANGED <<threads, msgs, nextId, ctxDone, errCh, sends, g, cancelMark>>
    /\ UNCHANGED <<strVars, fmtVars, llmVars, auxVars>>

\* lines 273-280: case err := <-errCh
CliSelectErr(p) ==
    /\ cli[p] = "select"
    /\ errCh[p] # "empty"
    /\ cliResult' = [cliResult EXCEPT ![p] = IF errCh[p] = "nil" THEN "ok" ELSE "failed"]
    /\ cli' = [cli EXCEPT ![p] = IF errCh[p] = "nil" THEN "idle" ELSE "exited"]
    /\ errCh' = [errCh EXCEPT ![p] = "empty"]
    /\ UNCHANGED <<threads, msgs, nextId, ctxDone, sends, g, cancelMark>>
    /\ UNCHANGED <<strVars, fmtVars, llmVars, auxVars>>

\* signal.NotifyContext, line 135: an interrupt cancels the context
Cancel(p) ==
    /\ ~ctxDone[p]
    /\ cli[p] = "select"
    /\ ctxDone' = [ctxDone EXCEPT ![p] = TRUE]
    /\ cancelMark' = [cancelMark EXCEPT ![p] =
                         IF g[p].pc = "sm_await" THEN nextId ELSE @]
    /\ UNCHANGED <<threads, msgs, nextId, cli, cliResult, errCh, sends, g>>
    /\ UNCHANGED <<strVars, fmtVars, llmVars, auxVars>>

\* ------------------------------------------------------ the llm client

\* the provider names of the switch in NewClient, lines 39-58
Supported == {"openai", "anthropic", "googleai"}

\* provider names a configuration may carry
Providers == Supported \cup {"ollama", ""}

\* a constructor whose default case builds the openai client
NewClientDefaultsToOpenAI(cfg, sdkFails) ==
    IF sdkFails THEN [client |-> "nil", err |-> "failed to create client"]
    ELSE [client |-> IF cfg \in Supported THEN cfg ELSE "openai", err |-> ""]

\* NewClient(modelCfg), lines 35-67; sdkFails: the SDK's constructor errs
NewClient(cfg, sdkFails) ==
    IF cfg \notin Supported THEN [client |-> "nil", err |-> "unsupported provider"]
    ELSE IF sdkFails THEN [client |-> "nil", err |-> "failed to create client"]
    ELSE [client |-> cfg, err |-> ""]

\* New has not been called / Client.SendMessage has not been called
NotCalled == [returned |-> FALSE]

\* message.New(repo, modelCfg), messageService.go lines 21-32
New ==
    /\ ~newResult.returned
    /\ LET r == NewClient(modelCfg, sdkErr)
       IN  newResult' =
               IF r.err # ""
               THEN [returned |-> TRUE, service |-> FALSE, llm |-> "nil",
                     err |-> <<"failed to create LLM client", r.err>>]
               ELSE [returned |-> TRUE, service |-> TRUE, llm |-> r.client,
                     err |-> <<>>]
    /\ UNCHANGED <<modelCfg, sdkErr, reply, response, persisted>>
    /\ UNCHANGED <<svcVars, strVars, fmtVars, auxVars>>

\* text is a sequence of pieces, the empty string the empty sequence
Texts == {<<>>, <<"text">>}

\* the tool calls one choice may carry
ToolCallLists == {<<>>, <<"call1">>, <<"call2", "call3">>, <<"call4">>}

\* the fields of the tool calls: Arguments is JSON text, given by its value
\* (json) and whether it is written with insignificant white space (spaced);
\* the arguments of call4 are the empty string, which is no JSON text
ToolCallFields(tc) ==
    CASE tc = "call1" ->
            [ID |-> "id1", Name |-> "f", Arguments |-> [json |-> "{}", spaced |-> FALSE]]
      [] tc = "call2" ->
            [ID |-> "id2", Name |-> "g", Arguments |-> [json |-> "{\"a\":1}", spaced |-> TRUE]]
      [] tc = "call3" ->
            [ID |-> "id3", Name |-> "f", Arguments |-> [json |-> "[2]", spaced |-> FALSE]]
      [] tc = "call4" ->
            [ID |-> "id4", Name |-> "g", Arguments |-> [json |-> "", spaced |-> FALSE]]

ChoiceSet == [Content : Texts, ToolCalls : ToolCallLists]

\* what GenerateContent may answer: an error, or a response with its choices
Replies ==
    {[err |-> TRUE, Choices |-> <<>>]} \cup
    {[err |-> FALSE, Choices |-> c] :
        c \in UNION {[1..n -> ChoiceSet] : n \in 0..MaxChoices}}

\* a client that reads the tool calls where it reads the text
FirstChoiceToolCalls(choices) ==
    IF choices = <<>> THEN <<>> ELSE choices[1].ToolCalls

\* lines 191-211: the tool calls of every choice, in order
RECURSIVE AllToolCalls(_)
AllToolCalls(choices) ==
    IF choices = <<>> THEN <<>>
    ELSE choices[1].ToolCalls \o AllToolCalls(Tail(choices))

\* Client.SendMessage, lines 182-216, on the answer rep of GenerateContent
ClientSendMessage(rep) ==
    IF rep.err
    THEN [returned |-> TRUE, err |-> <<"streaming message failed", "cause">>,
          TextResponse |-> <<>>, ToolCalls |-> <<>>]
    ELSE IF Len(rep.Choices) = 0
         THEN [returned |-> TRUE, err |-> <<"no response choices returned">>,
               TextResponse |-> <<>>, ToolCalls |-> <<>>]
         ELSE [returned |-> TRUE, err |-> <<>>,
               TextResponse |-> rep.Choices[1].Content,
               ToolCalls |-> AllToolCalls(rep.Choices)]

\* s.llm.SendMessage(...), messageService.go line 108, on a service that exists
CallProvider ==
    /\ newResult.returned
    /\ newResult.service
    /\ ~response.returned
    /\ response' = ClientSendMessage(reply)
    /\ UNCHANGED <<modelCfg, sdkErr, newResult, reply, persisted>>
    /\ UNCHANGED <<svcVars, strVars, fmtVars, auxVars>>

\* json.Marshal(aiResponse.ToolCalls), messageService.go line 113: the JSON
\* array of the objects {id, name, arguments}; a json.RawMessage that is no
\* JSON text is an error, one that is JSON text is written compacted
MarshalToolCalls(calls) ==
    IF \E k \in 1..Len(calls) : ToolCallFields(calls[k]).Arguments.json = ""
    THEN [err |-> TRUE, val |-> <<>>]
    ELSE [err |-> FALSE,
          val |-> [k \in 1..Len(calls) |->
                     [id |-> ToolCallFields(calls[k]).ID,
                      name |-> ToolCallFields(calls[k]).Name,
                      arguments |-> [ToolCallFields(calls[k]).Arguments
                                         EXCEPT !.spaced = FALSE]]]]

\* messageService.go lines 109-136 for the response of the provider call:
\* the error returns, and aiMsg as AddMessageToThread stores it (stored says
\* whether the store took it)
PersistResponse ==
    /\ response.returned
    /\ ~persisted.returned
    /\ \E stored \in BOOLEAN :
          LET m == MarshalToolCalls(response.ToolCalls)
          IN  persisted' =
                  IF response.err # <<>>
                  THEN [returned |-> TRUE, stored |-> FALSE,
                        err |-> <<"failed to stream AI response">> \o response.err]
                  ELSE IF m.err
                  THEN [returned |-> TRUE, stored |-> FALSE,
                        err |-> <<"Failed to parse ToolCalls">>]
                  ELSE IF ~stored
                  THEN [returned |-> TRUE, stored |-> FALSE, err |-> <<"store">>]
                  ELSE [returned |-> TRUE, stored |-> TRUE, err |-> <<>>,
                        Role |-> "assistant",
                        Content |-> response.TextResponse,
                        ToolCalls |-> m.val]
    /\ UNCHANGED <<modelCfg, sdkErr, newResult, reply, response>>
    /\ UNCHANGED <<svcVars, strVars, fmtVars, auxVars>>

\* ------------------------------------------------ the stream callback

\* the streamed chunks, as their bytes
TextChunk == "Hello"
BytesChunk == "]}\"x"
PartialChunk == "[{\"id\":\"a\",\"fun"
EmptyArrayChunk == "[]"
ObjectChunk == "{\"id\":\"a\"}"
NullChunk == "null"
NumberArrayChunk == "[1]"
CallAChunk == "[{\"id\":\"a\",\"function\":{\"name\":\"f\",\"arguments\":\"{\"}}]"
CallBChunk == "[{\"id\":\"b\",\"function\":{\"name\":\"g\",\"arguments\":\"{\"}}]"
CallNoIdChunk == "[{\"function\":{\"arguments\":\"}\"}}]"

CallChunks == {CallAChunk, CallBChunk, CallNoIdChunk}

Chunks ==
    {TextChunk, BytesChunk, PartialChunk, EmptyArrayChunk, ObjectChunk, NullChunk,
     NumberArrayChunk} \cup CallChunks

\* what a chunk is, read as JSON
ChunkClass(c) ==
    CASE c \in {TextChunk, BytesChunk} -> "notJSON"
      [] c = PartialChunk -> "partialJSON"
      [] c = EmptyArrayChunk -> "emptyArray"
      [] c \in {ObjectChunk, NullChunk} -> "nonArray"
      [] c = NumberArrayChunk -> "arrayOfOther"
      [] c \in CallChunks -> "callRecords"

\* the elements a chunk of call records decodes to (Id is a *string)
CallRecords(c) ==
    CASE c = CallAChunk ->
            <<[hasId |-> TRUE, id |-> "a", name |-> "f", args |-> "{"]>>
      [] c = CallBChunk ->
            <<[hasId |-> TRUE, id |-> "b", name |-> "g", args |-> "{"]>>
      [] c = CallNoIdChunk ->
            <<[hasId |-> FALSE, id |-> "", name |-> "", args |-> "}"]>>

\* json.Unmarshal(chunk, &fcall), lines 86-90: a syntax error leaves fcall
\* untouched; an element that is no object is a type error that leaves a zero
\* element behind; null and [] decode to an empty slice
Unmarshal(c) ==
    CASE ChunkClass(c) \in {"notJSON", "partialJSON"} ->
            [err |-> TRUE, val |-> <<>>]
      [] ChunkClass(c) = "arrayOfOther" ->
            [err |-> TRUE,
             val |-> <<[hasId |-> FALSE, id |-> "", name |-> "", args |-> ""]>>]
      [] c = ObjectChunk -> [err |-> TRUE, val |-> <<>>]
      [] c = NullChunk -> [err |-> FALSE, val |-> <<>>]
      [] ChunkClass(c) = "emptyArray" -> [err |-> FALSE, val |-> <<>>]
      [] ChunkClass(c) = "callRecords" -> [err |-> FALSE, val |-> CallRecords(c)]

\* a probe that never recognises a call
ClassifyAsText(u) == "text"

\* line 90: err == nil && len(fcall) > 0 decides between call and text
ClassifyByLength(u) == IF Len(u.val) > 0 THEN "call" ELSE "text"

Classify(u) == IF ~u.err /\ Len(u.val) > 0 THEN "call" ELSE "text"

\* line 94: a start is due when the chunk has an id other than the current one
StartDue(cur, first) == first.hasId /\ cur # first.id

Event(kind, id, data, ret) == [kind |-> kind, id |-> id, data |-> data, ret |-> ret]

\* streamCallback(chunk), lines 84-105; rs, rc, rt are what the handler's
\* HandleFunctionCallStart, HandleFunctionCallChunk and HandleTextChunk return
streamCallback(c, rs, rc, rt) ==
    LET u == Unmarshal(c)
        cls == Classify(u)
        first == u.val[1]
        due == StartDue(currentFunctionId, first)
    IN  /\ streamOpen
        /\ Len(chunks) < MaxChunks
        /\ chunks' = Append(chunks, c)
        /\ CASE cls = "call" /\ due /\ rs = "err" ->
                   /\ events' = Append(events, Event("start", first.id, first.name, rs))
                   /\ lastRet' = rs
                   /\ UNCHANGED currentFunctionId
             [] cls = "call" /\ due /\ rs = "nil" ->
                   /\ events' = events \o
                        <<Event("start", first.id, first.name, rs),
                          Event("chunk", "", first.args, rc)>>
                   /\ lastRet' = rc
                   /\ currentFunctionId' = first.id
             [] cls = "call" /\ ~due ->
                   /\ events' = Append(events, Event("chunk", "", first.args, rc))
                   /\ lastRet' = rc
                   /\ UNCHANGED currentFunctionId
             [] cls = "text" ->
                   /\ events' = Append(events, Event("text", "", c, rt))
                   /\ lastRet' = rt
                   /\ UNCHANGED currentFunctionId
        /\ streamOpen' = (lastRet' = "nil")

\* the callback with a handler that keeps no state of its own
Stream(c, rs, rc, rt) ==
    /\ streamCallback(c, rs, rc, rt)
    /\ UNCHANGED <<svcVars, fmtVars, llmVars, auxVars>>

IdleStr ==
    /\ currentFunctionId = ""
    /\ chunks = <<>>
    /\ events = <<>>
    /\ lastRet = "nil"
    /\ streamOpen = TRUE

\* ------------------------------------------ CLIStreamHandler.formatJSON

Quote == 34
Backslash == 92
LBracket == 91
RBracket == 93
LBrace == 123
RBrace == 125
Comma == 44
Colon == 58
Space == 32
Newline == 10
Dash == 45
Letter == 97
\* the two bytes of U+00E9 in UTF-8, and U+FFFD, utf8.RuneError
Lead2 == 195
Cont == 169
RuneError == 65533

FmtBytes ==
    {Quote, Backslash, LBracket, RBracket, LBrace, RBrace, Comma, Colon, Space,
     Letter, Lead2, Cont}

\* for _, char := range data (line 326): the runes of a string; a byte that
\* starts no valid encoding is RuneError and takes one byte
RECURSIVE DecodeRunes(_)
DecodeRunes(data) ==
    IF data = <<>> THEN <<>>
    ELSE IF data[1] < 128
         THEN <<data[1]>> \o DecodeRunes(Tail(data))
         ELSE IF /\ data[1] >= 194 /\ data[1] <= 223
                 /\ Len(data) >= 2 /\ data[2] >= 128 /\ data[2] <= 191
              THEN <<(data[1] - 192) * 64 + (data[2] - 128)>>
                       \o DecodeRunes(Tail(Tail(data)))
              ELSE <<RuneError>> \o DecodeRunes(Tail(data))

\* the byte offsets of data at which range starts a rune, and its end
RECURSIVE RuneBounds(_, _)
RuneBounds(data, at) ==
    IF data = <<>> THEN {at}
    ELSE IF /\ data[1] >= 194 /\ data[1] <= 223
            /\ Len(data) >= 2 /\ data[2] >= 128 /\ data[2] <= 191
         THEN {at} \cup RuneBounds(Tail(Tail(data)), at + 2)
         ELSE {at} \cup RuneBounds(Tail(data), at + 1)

\* formatted.WriteRune(char): the UTF-8 encoding of a rune
WriteRune(r) ==
    IF r < 128 THEN <<r>>
    ELSE IF r < 2048 THEN <<192 + (r \div 64), 128 + (r % 64)>>
    ELSE <<224 + (r \div 4096), 128 + ((r \div 64) % 64), 128 + (r % 64)>>

\* writeIndent, lines 320-324
RECURSIVE writeIndent(_)
writeIndent(n) == IF n <= 0 THEN <<>> ELSE <<Space, Space>> \o writeIndent(n - 1)

HandlerInit ==
    [inQuote |-> FALSE, escaped |-> FALSE, indentLevel |-> 0,
     inArray |-> FALSE, isValue |-> FALSE]

\* the switch of lines 327-396, for one rune
FormatSwitch(hh, c) ==
    CASE hh.escaped ->
            [h |-> [hh EXCEPT !.escaped = FALSE], out |-> WriteRune(c)]
      [] ~hh.escaped /\ c = Backslash ->
            [h |-> [hh EXCEPT !.escaped = TRUE], out |-> WriteRune(c)]
      [] ~hh.escaped /\ c = Quote ->
            [h |-> [hh EXCEPT !.inQuote = ~hh.inQuote], out |-> <<>>]
      [] ~hh.escaped /\ c = LBracket /\ ~hh.inQuote ->
            [h |-> [hh EXCEPT !.inArray = TRUE, !.indentLevel = hh.indentLevel + 1],
             out |-> <<Newline>> \o writeIndent(hh.indentLevel + 1) \o <<Dash, Space>>]
      [] ~hh.escaped /\ c = RBracket /\ ~hh.inQuote ->
            [h |-> [hh EXCEPT !.inArray = FALSE, !.indentLevel = hh.indentLevel - 1],
             out |-> <<>>]
      [] ~hh.escaped /\ c = LBrace /\ ~hh.inQuote ->
            [h |-> [hh EXCEPT !.indentLevel = hh.indentLevel + 1],
             out |-> (IF hh.inArray THEN writeIndent(hh.indentLevel) ELSE <<>>)
                       \o <<Newline>> \o writeIndent(hh.indentLevel + 1)]
      [] ~hh.escaped /\ c = RBrace /\ ~hh.inQuote ->
            [h |-> [hh EXCEPT !.indentLevel = hh.indentLevel - 1, !.isValue = FALSE],
             out |-> <<>>]
      [] ~hh.escaped /\ c = Comma /\ ~hh.inQuote ->
            [h |-> [hh EXCEPT !.isValue = FALSE],
             out |-> <<Newline>> \o writeIndent(hh.indentLevel)
                       \o (IF hh.inArray THEN <<Dash, Space>> ELSE <<>>)]
      [] ~hh.escaped /\ c = Colon /\ ~hh.inQuote ->
            [h |-> [hh EXCEPT !.isValue = TRUE], out |-> <<Colon, Space>>]
      [] ~hh.escaped /\ c = Space /\ ~hh.inQuote ->
            [h |-> hh, out |-> IF hh.isValue THEN <<Space>> ELSE <<>>]
      [] OTHER ->
            IF hh.inArray /\ ~hh.isValue /\ ~hh.inQuote
            THEN [h |-> [hh EXCEPT !.isValue = TRUE],
                  out |-> <<Dash, Space>> \o WriteRune(c)]
            ELSE [h |-> hh, out |-> WriteRune(c)]

\* a switch that looks at the quote before it looks at the pending escape
FormatCharQuoteFirst(hh, c) ==
    IF c = Quote
    THEN [h |-> [hh EXCEPT !.inQuote = ~hh.inQuote, !.escaped = FALSE], out |-> <<>>]
    ELSE FormatSwitch(hh, c)

\* a loop that counts brackets inside string values as structure
FormatCharBracketsInStrings(hh, c) ==
    IF c \in {LBracket, RBracket, LBrace, RBrace} /\ ~hh.escaped
    THEN [h |-> [FormatSwitch([hh EXCEPT !.inQuote = FALSE], c).h
                    EXCEPT !.inQuote = hh.inQuote],
          out |-> FormatSwitch([hh EXCEPT !.inQuote = FALSE], c).out]
    ELSE FormatSwitch(hh, c)

\* the body of the loop, lines 326-397
FormatChar(hh, c) == FormatSwitch(hh, c)

\* the loop of lines 326-397 over the runes of one call's data
RECURSIVE FormatRunes(_, _)
FormatRunes(hh, runes) ==
    IF runes = <<>> THEN [h |-> hh, out |-> <<>>]
    ELSE LET one == FormatChar(hh, runes[1])
             rest == FormatRunes(one.h, Tail(runes))
         IN  [h |-> rest.h, out |-> one.out \o rest.out]

\* what the loop did, rune by rune; first marks the first rune of a call
RECURSIVE TraceRunes(_, _, _)
TraceRunes(hh, runes, first) ==
    IF runes = <<>> THEN <<>>
    ELSE LET one == FormatChar(hh, runes[1])
         IN  <<[char |-> runes[1], before |-> hh, after |-> one.h,
                out |-> one.out, first |-> first]>>
                 \o TraceRunes(one.h, Tail(runes), FALSE)

\* a formatter that forgets a pending escape between two calls
formatJSONFreshEscape(hh, data) ==
    FormatRunes([hh EXCEPT !.escaped = FALSE], DecodeRunes(data))

\* formatJSON(data), lines 317-399: the returned text and the handler after
formatJSON(hh, data) == FormatRunes(hh, DecodeRunes(data))

\* HandleFunctionCallChunk, lines 307-310: the next k bytes of the argument
\* text arrive as one chunk
FeedSlice(k) ==
    LET data == SubSeq(fmtIn, fmtPos + 1, fmtPos + k)
        r == formatJSON(h, data)
    IN  /\ k >= 1
        /\ fmtPos + k <= Len(fmtIn)
        /\ h' = r.h
        /\ fmtOut' = fmtOut \o r.out
        /\ fmtPos' = fmtPos + k
        /\ fmtSlices' = fmtSlices + 1
        /\ fmtAligned' = (fmtAligned /\ (fmtPos + k) \in RuneBounds(fmtIn, 0))
        /\ fmtTrace' = fmtTrace \o TraceRunes(h, DecodeRunes(data), TRUE)
        /\ UNCHANGED <<fmtH0, fmtIn>>
        /\ UNCHANGED <<svcVars, strVars, llmVars, auxVars>>

\* the bytes of the ArgumentsJson of the call chunks
ArgBytes(args) ==
    CASE args = "{" -> <<LBrace>>
      [] args = "}" -> <<RBrace>>
      [] args = "" -> <<>>

\* the callback with the CLIStreamHandler of sendMessage (lines 249-252) as
\* its handler: HandleFunctionCallStart (302-305) and HandleTextChunk (293-295)
\* print and return nil, HandleFunctionCallChunk (307-310) prints
\* formatJSON(chunk.ArgumentsJson); fmtH0 keeps the handler as it was when
\* the latest HandleFunctionCallStart was called
CliStream(c) ==
    LET u == Unmarshal(c)
        first == u.val[1]
        r == formatJSON(h, ArgBytes(first.args))
    IN  /\ streamCallback(c, "nil", "nil", "nil")
        /\ IF Classify(u) = "call"
           THEN /\ h' = r.h
                /\ fmtOut' = fmtOut \o r.out
                /\ fmtH0' = IF StartDue(currentFunctionId, first) THEN h ELSE fmtH0
           ELSE UNCHANGED <<h, fmtOut, fmtH0>>
        /\ UNCHANGED <<fmtIn, fmtPos, fmtSlices, fmtAligned, fmtTrace>>
        /\ UNCHANGED <<svcVars, llmVars, auxVars>>

\* a Reset that brings the handler back to its zero value
ResetAll(hh) == HandlerInit

\* Reset, lines 312-315
Reset(hh) == [hh EXCEPT !.inQuote = FALSE, !.escaped = FALSE]

\* a call of h.Reset()
CallReset ==
    /\ h' = Reset(h)
    /\ resetLog' = [called |-> TRUE, before |-> h, after |-> h']
    /\ UNCHANGED <<fmtH0, fmtIn, fmtPos, fmtOut, fmtSlices, fmtAligned, fmtTrace>>
    /\ UNCHANGED <<svcVars, strVars, llmVars, lastDel, parse, cmd>>

\* the values of a CLIStreamHandler, lines 284-291, with the indent levels
\* that MaxLen brackets can lead to
HandlerStates ==
    [inQuote : BOOLEAN, escaped : BOOLEAN, indentLevel : (0 - MaxLen)..MaxLen,
     inArray : BOOLEAN, isValue : BOOLEAN]

\* handler states a tool call's fragments may meet
FmtStarts ==
    {HandlerInit,
     [HandlerInit EXCEPT !.inQuote = TRUE],
     [HandlerInit EXCEPT !.inQuote = TRUE, !.escaped = TRUE],
     [HandlerInit EXCEPT !.inArray = TRUE, !.indentLevel = 1]}

IdleFmt ==
    /\ h = HandlerInit
    /\ fmtH0 = HandlerInit
    /\ fmtIn = <<>>
    /\ fmtPos = 0
    /\ fmtOut = <<>>
    /\ fmtSlices = 0
    /\ fmtAligned = TRUE
    /\ fmtTrace = <<>>

\* ------------------------------- tool-call arguments that are valid JSON

Digit == 49

\* the bytes the arguments are written with; Letter stands for the text of
\* a string, Digit for a number
JsonBytes ==
    {Quote, Backslash, LBracket, RBracket, LBrace, RBrace, Comma, Colon, Space,
     Letter, Digit}

\* a JSON parser before the first byte: the containers open, what may come
\* next, the string it is inside of, the kind of the document's value and
\* the deepest nesting met
ParseStart ==
    [stack |-> <<>>, expect |-> "value", str |-> "no", esc |-> FALSE,
     top |-> "none", deepest |-> 0]

Top(stack) == IF stack = <<>> THEN "none" ELSE stack[Len(stack)]

AfterValue(stack) == IF stack = <<>> THEN "done" ELSE "comma_or_close"

WantsValue(p) == p.expect \in {"value", "value_or_close"}

\* byte b continues a well-formed JSON text that the parser has read to p
Allowed(p, b) ==
    IF p.str # "no"
    THEN p.esc => b \in {Quote, Backslash}
    ELSE CASE b = Space -> TRUE
           [] b = Quote -> WantsValue(p) \/ p.expect \in {"key", "key_or_close"}
           [] b = Digit -> WantsValue(p)
           [] b \in {LBrace, LBracket} -> WantsValue(p)
           [] b = RBrace -> /\ Top(p.stack) = "object"
                            /\ p.expect \in {"key_or_close", "comma_or_close"}
           [] b = RBracket -> /\ Top(p.stack) = "array"
                              /\ p.expect \in {"value_or_close", "comma_or_close"}
           [] b = Comma -> p.expect = "comma_or_close"
           [] b = Colon -> p.expect = "colon"
           [] OTHER -> FALSE

Opened(p, kind) ==
    [p EXCEPT !.stack = Append(@, kind),
              !.expect = IF kind = "object" THEN "key_or_close" ELSE "value_or_close",
              !.top = IF @ = "none" THEN kind ELSE @,
              !.deepest = IF Len(p.stack) + 1 > @ THEN Len(p.stack) + 1 ELSE @]

Closed(p) ==
    [p EXCEPT !.stack = SubSeq(@, 1, Len(@) - 1),
              !.expect = AfterValue(SubSeq(p.stack, 1, Len(p.stack) - 1))]

\* the parser after an allowed byte b
Advance(p, b) ==
    IF p.str # "no"
    THEN IF p.esc THEN [p EXCEPT !.esc = FALSE]
         ELSE IF b = Backslash THEN [p EXCEPT !.esc = TRUE]
         ELSE IF b = Quote
              THEN [p EXCEPT !.str = "no",
                             !.expect = IF p.str = "key" THEN "colon"
                                        ELSE AfterValue(p.stack)]
              ELSE p
    ELSE CASE b = Space -> p
           [] b = Quote -> [p EXCEPT !.str = IF WantsValue(p) THEN "value" ELSE "key",
                                     !.top = IF @ = "none" THEN "scalar" ELSE @]
           [] b = Digit -> [p EXCEPT !.expect = AfterValue(p.stack),
                                     !.top = IF @ = "none" THEN "scalar" ELSE @]
           [] b = LBrace -> Opened(p, "object")
           [] b = LBracket -> Opened(p, "array")
           [] b \in {RBrace, RBracket} -> Closed(p)
           [] b = Comma -> [p EXCEPT !.expect = IF Top(p.stack) = "object"
                                               THEN "key" ELSE "value"]
           [] b = Colon -> [p EXCEPT !.expect = "value"]

\* HandleFunctionCallChunk, lines 302-306, with the next byte of arguments
\* that are valid JSON; what is printed is not kept
FeedByte(b) ==
    /\ fmtPos < MaxDoc
    /\ Allowed(parse, b)
    /\ parse' = Advance(parse, b)
    /\ h' = formatJSON(h, <<b>>).h
    /\ fmtPos' = fmtPos + 1
    /\ fmtSlices' = fmtSlices + 1
    /\ UNCHANGED <<fmtH0, fmtIn, fmtOut, fmtAligned, fmtTrace>>
    /\ UNCHANGED <<svcVars, strVars, llmVars, lastDel, resetLog, cmd>>

\* ------------------------------------------- sendCmd, lines 129-245

\* what the command line and standard input are written with
InputBytes == {Letter, Digit, Space, Newline}

StdinTexts(n) == UNION {[1..k -> InputBytes] : k \in 0..n}

\* args: none, one empty argument, one word, two empty arguments
Args == {<<>>, <<<<>>>>, <<<<Letter>>>>, <<<<>>, <<>>>>}

\* strings.Join(args, " "), line 166
RECURSIVE Join(_)
Join(args) ==
    IF args = <<>> THEN <<>>
    ELSE IF Len(args) = 1 THEN args[1]
    ELSE args[1] \o <<Space>> \o Join(Tail(args))

IsSpace(b) == b \in {Space, Newline}

RECURSIVE TrimLeft(_)
TrimLeft(str) == IF str # <<>> /\ IsSpace(str[1]) THEN TrimLeft(Tail(str)) ELSE str

RECURSIVE TrimRight(_)
TrimRight(str) ==
    IF str # <<>> /\ IsSpace(str[Len(str)])
    THEN TrimRight(SubSeq(str, 1, Len(str) - 1))
    ELSE str

\* strings.TrimSpace, lines 175 and 231
TrimSpace(str) == TrimRight(TrimLeft(str))

\* reader.ReadString('\n'), line 223: the bytes up to and with the first
\* newline; without one, all the bytes left together with io.EOF
ReadString(rest) ==
    IF \E i \in 1..Len(rest) : rest[i] = Newline
    THEN LET i == CHOOSE k \in 1..Len(rest) :
                      /\ rest[k] = Newline
                      /\ \A j \in 1..(k - 1) : rest[j] # Newline
         IN  [data |-> SubSeq(rest, 1, i), rest |-> SubSeq(rest, i + 1, Len(rest)),
              err |-> "nil"]
    ELSE [data |-> rest, rest |-> <<>>, err |-> "EOF"]

\* the zero uuid.UUID of var threadID, line 184
NoThread == "nil"

\* ids NewThread may hand out
SendThreadIds == ThreadIds \cup {"T3"}

\* the text of a thread id
IdText(t) == CASE t = "T1" -> <<1, 1>> [] t = "T2" -> <<1, 2>> [] OTHER -> <<2, 1>>

\* values of --thread; the empty one is the flag's default
PartialIds == {<<>>, <<1>>, <<1, 1>>, <<2>>}

HasPrefix(str, prefix) ==
    Len(prefix) <= Len(str) /\ SubSeq(str, 1, Len(prefix)) = prefix

\* the threads whose id starts with prefix
Matching(existing, prefix) == {t \in existing : HasPrefix(IdText(t), prefix)}

\* service.FindThreadByPartialID: the one thread whose id starts with
\* prefix; an error when none or several do
FindThreadByPartialID(existing, prefix) ==
    IF Cardinality(Matching(existing, prefix)) = 1
    THEN [err |-> "nil", id |-> CHOOSE t \in Matching(existing, prefix) : TRUE]
    ELSE [err |-> "thread lookup failed", id |-> NoThread]

\* service.GetActiveThread: the thread created last; an error when none is
GetActiveThread(order) ==
    IF order = <<>>
    THEN [err |-> "thread lookup failed", id |-> NoThread]
    ELSE [err |-> "nil", id |-> order[Len(order)]]

\* service.NewThread, asked to create thread created, or failing (NoThread)
ServiceNewThread(created) ==
    IF created = NoThread
    THEN [err |-> "failed to create thread", id |-> NoThread]
    ELSE [err |-> "nil", id |-> created]

CmdIdle ==
    [pc |-> "idle", args |-> <<>>, piped |-> FALSE, stdin |-> <<>>,
     threadFlag |-> <<>>, continueFlag |-> FALSE, followupFlag |-> FALSE,
     order |-> <<>>, before |-> {}, message |-> <<>>, rest |-> <<>>,
     threadID |-> NoThread, calls |-> <<>>, err |-> "nil", sentLog |-> <<>>]

\* a command about to run: its arguments, flags and standard input
CmdStarts(argss, prefixes, flags, followups, n) ==
    {[CmdIdle EXCEPT !.args = a, !.piped = pi, !.stdin = in, !.threadFlag = tf,
                     !.continueFlag = cf, !.followupFlag = ff] :
        a \in argss, pi \in BOOLEAN, in \in StdinTexts(n), tf \in prefixes,
        cf \in flags, ff \in followups}

\* lines 163-177: the message from the arguments, else from piped input
InitialMessage(c, readFails) ==
    IF Len(c.args) > 0 THEN Join(c.args)
    ELSE IF c.piped /\ ~readFails THEN TrimSpace(c.stdin)
    ELSE <<>>

\* standard input left for the followup reader: io.ReadAll took it all
RestAfterMessage(c) == IF Len(c.args) = 0 /\ c.piped THEN <<>> ELSE c.stdin

\* a command that checks the message only
InputErrorMessageOnly(c, msg) ==
    IF msg = <<>> THEN "no message provided" ELSE "nil"

\* the checks of lines 179-181 and 185-187
InputError(c, msg) ==
    IF msg = <<>> THEN "no message provided"
    ELSE IF c.continueFlag /\ c.threadFlag # <<>>
         THEN "cannot specify --target and --continue"
         ELSE "nil"

\* the command after the service answered r to its call op
Selected(c, op, r) ==
    [c EXCEPT !.calls = Append(@, op), !.threadID = r.id, !.err = r.err,
              !.pc = IF r.err = "nil" THEN "send" ELSE "done",
              !.order = IF op = "NewThread" /\ r.err = "nil" THEN Append(@, r.id) ELSE @]

\* a command run earlier created thread t
EarlierNewThread(t) ==
    /\ cmd.pc = "idle"
    /\ t \notin threads
    /\ threads' = threads \cup {t}
    /\ cmd' = [cmd EXCEPT !.order = Append(@, t)]
    /\ UNCHANGED <<msgs, nextId, cli, cliResult, ctxDone, errCh, sends, g, cancelMark>>
    /\ UNCHANGED <<strVars, fmtVars, llmVars, lastDel, resetLog, parse>>

\* sendCmd, lines 163-212: the message, the checks, the thread
SendCmdStart(readFails, created) ==
    /\ cmd.pc = "idle"
    /\ LET msg == InitialMessage(cmd, readFails)
           c == [cmd EXCEPT !.before = threads, !.message = msg,
                            !.rest = RestAfterMessage(cmd)]
       IN  IF Len(cmd.args) = 0 /\ cmd.piped /\ readFails
           THEN /\ cmd' = [c EXCEPT !.pc = "done", !.err = "failed to read piped input"]
                /\ UNCHANGED threads
           ELSE IF InputError(c, msg) # "nil"
           THEN /\ cmd' = [c EXCEPT !.pc = "done", !.err = InputError(c, msg)]
                /\ UNCHANGED threads
           ELSE IF c.threadFlag # <<>>
           THEN /\ cmd' = Selected(c, "FindThreadByPartialID",
                                   FindThreadByPartialID(threads, c.threadFlag))
                /\ UNCHANGED threads
           ELSE IF c.continueFlag
           THEN /\ cmd' = Selected(c, "GetActiveThread", GetActiveThread(c.order))
                /\ UNCHANGED threads
           ELSE /\ created \notin threads
                /\ cmd' = Selected(c, "NewThread", ServiceNewThread(created))
                /\ threads' = IF created = NoThread THEN threads
                              ELSE threads \cup {created}
    /\ UNCHANGED <<msgs, nextId, cli, cliResult, ctxDone, errCh, sends, g, cancelMark>>
    /\ UNCHANGED <<strVars, fmtVars, llmVars, lastDel, resetLog, parse>>

\* the command after sendMessage(ctx, agentService, sendOptions) with this
\* content returned nil (ok) or an error
AfterTurn(c, content, ok, next) ==
    [c EXCEPT !.sentLog = Append(@, [thread |-> c.threadID, content |-> content,
                                     ok |-> ok]),
              !.err = IF ok THEN "nil" ELSE "failed to send message",
              !.pc = IF ok THEN next ELSE "done"]

\* lines 214-220: the initial message is sent
SendInitial(ok) ==
    /\ cmd.pc = "send"
    /\ cmd' = AfterTurn(cmd, cmd.message, ok,
                        IF cmd.followupFlag THEN "loop" ELSE "done")
    /\ UNCHANGED svcVars
    /\ UNCHANGED <<strVars, fmtVars, llmVars, lastDel, resetLog, parse>>

\* one pass of the loop of lines 222-240
Followup(readFails, ok) ==
    /\ cmd.pc = "loop"
    /\ LET r == ReadString(cmd.rest)
           c == [cmd EXCEPT !.rest = r.rest]
       IN  cmd' = IF readFails
                  THEN [cmd EXCEPT !.pc = "done", !.err = "failed to read input"]
                  ELSE IF r.err = "EOF" THEN [c EXCEPT !.pc = "done"]
                  ELSE IF TrimSpace(r.data) = <<>> THEN c
                  ELSE AfterTurn(c, TrimSpace(r.data), ok, "loop")
    /\ UNCHANGED svcVars
    /\ UNCHANGED <<strVars, fmtVars, llmVars, lastDel, resetLog, parse>>

\* ------------------------------------------------------- specification

IdleLLM ==
    /\ modelCfg = "openai"
    /\ sdkErr = FALSE
    /\ newResult = NotCalled
    /\ reply = [err |-> FALSE, Choices |-> <<>>]
    /\ response = NotCalled
    /\ persisted = NotCalled

IdleAux ==
    /\ lastDel = [gone |-> {}, absent |-> {}]
    /\ resetLog = [called |-> FALSE, before |-> HandlerInit, after |-> HandlerInit]
    /\ parse = ParseStart
    /\ cmd = CmdIdle

InitSvc ==
    /\ threads = {}
    /\ msgs = <<>>
    /\ nextId = 1
    /\ cli = [p \in Procs |-> "idle"]
    /\ cliResult = [p \in Procs |-> "none"]
    /\ ctxDone = [p \in Procs |-> FALSE]
    /\ errCh = [p \in Procs |-> "empty"]
    /\ sends = 0
    /\ g = [p \in Procs |-> IdleG]
    /\ cancelMark = [p \in Procs |-> NilID]

vars == <<svcVars, strVars, fmtVars, llmVars, auxVars>>

Init == InitSvc /\ IdleStr /\ IdleFmt /\ IdleLLM /\ IdleAux

\* the formatter alone: an argument text and the handler state it meets
InitFmt ==
    /\ InitSvc
    /\ IdleStr
    /\ IdleLLM
    /\ IdleAux
    /\ fmtIn \in UNION {[1..n -> FmtBytes] : n \in 0..MaxLen}
    /\ fmtH0 \in FmtStarts
    /\ h = fmtH0
    /\ fmtPos = 0
    /\ fmtOut = <<>>
    /\ fmtSlices = 0
    /\ fmtAligned = TRUE
    /\ fmtTrace = <<>>

\* one CLI process: its sends, its goroutine and the interrupt signal
Turn(p) ==
    \/ \E t \in ThreadIds, parent \in {NilID} \cup MsgIds : CliSend(p, t, parent)
    \/ SM_GetThread(p)
    \/ SM_LookupParent(p)
    \/ SM_GetHistory(p)
    \/ SM_ProviderReturns(p)
    \/ SM_AddUser(p)
    \/ SM_AddAI(p)
    \/ Ag_Check(p)
    \/ Ag_Tools(p)
    \/ G_Return(p)
    \/ CliSelectErr(p)

Next ==
    \/ \E t \in ThreadIds : NewThread(t)
    \/ Turn("p1")
    \/ CliSelectCtx("p1")
    \/ Cancel("p1")

Spec == Init /\ [][Next]_vars

\* two CLI processes working on the same database at the same time
NextConc ==
    \/ \E t \in ThreadIds : NewThread(t)
    \/ \E p \in Procs : Turn(p)

SpecConc == Init /\ [][NextConc]_vars

\* no SendMessage call is running: operations follow one another
Quiescent ==
    \A p \in Procs :
        g[p].pc \notin {"sm_getThread", "sm_lookup", "sm_history", "sm_await",
                        "sm_addUser", "sm_addAI"}

\* a turn whose provider never asks for a tool: one SendMessage call per send
\* (the follow-up call of a tool cycle is a call with an explicit ParentID)
TurnNoTools(p) ==
    \/ \E t \in ThreadIds, parent \in {NilID} \cup MsgIds : CliSend(p, t, parent)
    \/ SM_GetThread(p)
    \/ SM_LookupParent(p)
    \/ SM_GetHistory(p)
    \/ SM_ProviderReturns(p) /\ g'[p].nTools = 0
    \/ SM_AddUser(p)
    \/ SM_AddAI(p)
    \/ Ag_Check(p)
    \/ G_Return(p)
    \/ CliSelectErr(p)

\* one process sending, threads and messages being deleted between the calls;
\* a new thread gets an id no thread had before
NextStore ==
    \/ \E t \in ThreadIds \ lastDel.gone : NewThread(t)
    \/ TurnNoTools("p1")
    \/ Quiescent /\ \E t \in ThreadIds : DeleteThread(t)
    \/ Quiescent /\ \E t \in ThreadIds, count \in 1..MaxCount : DeleteLastMessages(t, count)

SpecStore == Init /\ [][NextStore]_vars

\* a configuration, a provider SDK and the answer the provider will give
InitLLM ==
    /\ InitSvc
    /\ IdleStr
    /\ IdleFmt
    /\ IdleAux
    /\ modelCfg \in Providers
    /\ sdkErr \in BOOLEAN
    /\ newResult = NotCalled
    /\ reply \in Replies
    /\ response = NotCalled
    /\ persisted = NotCalled

NextLLM == New \/ CallProvider \/ PersistResponse

SpecLLM == InitLLM /\ [][NextLLM]_vars

\* the chunks of one provider call, each handed to the stream callback
NextStream ==
    \E c \in Chunks, rs, rc, rt \in {"nil", "err"} : Stream(c, rs, rc, rt)

SpecStream == Init /\ [][NextStream]_vars

\* the chunks of one turn, handed to the callback that sendMessage's
\* CLIStreamHandler serves
NextCli == \E c \in Chunks : CliStream(c)

SpecCli == Init /\ [][NextCli]_vars

\* a handler in any of its states, and Reset called on it
InitReset ==
    /\ InitSvc
    /\ IdleStr
    /\ IdleLLM
    /\ IdleAux
    /\ h \in HandlerStates
    /\ fmtH0 = h
    /\ fmtIn = <<>>
    /\ fmtPos = 0
    /\ fmtOut = <<>>
    /\ fmtSlices = 0
    /\ fmtAligned = TRUE
    /\ fmtTrace = <<>>

NextReset == CallReset

SpecReset == InitReset /\ [][NextReset]_vars

\* one argument text, cut into chunks in every way
NextFmt == \E k \in 1..MaxLen : FeedSlice(k)

SpecFmt == InitFmt /\ [][NextFmt]_vars

\* arguments that are valid JSON, printed byte by byte by a new handler
NextJson == \E b \in JsonBytes : FeedByte(b)

SpecJson == Init /\ [][NextJson]_vars

\* one send command, with any flags, on a store of up to two threads
InitSend ==
    /\ InitSvc
    /\ IdleStr
    /\ IdleFmt
    /\ IdleLLM
    /\ lastDel = [gone |-> {}, absent |-> {}]
    /\ resetLog = [called |-> FALSE, before |-> HandlerInit, after |-> HandlerInit]
    /\ parse = ParseStart
    /\ cmd \in CmdStarts(Args, PartialIds, BOOLEAN, BOOLEAN, 1)

NextSend ==
    \/ \E t \in ThreadIds : EarlierNewThread(t)
    \/ \E readFails \in BOOLEAN, created \in SendThreadIds \cup {NoThread} :
           SendCmdStart(readFails, created)
    \/ \E ok \in BOOLEAN : SendInitial(ok)
    \/ \E readFails \in BOOLEAN, ok \in BOOLEAN : Followup(readFails, ok)

SpecSend == InitSend /\ [][NextSend]_vars

\* a send command in followup mode, with up to MaxInput bytes to read
InitFollowup ==
    /\ InitSvc
    /\ IdleStr
    /\ IdleFmt
    /\ IdleLLM
    /\ lastDel = [gone |-> {}, absent |-> {}]
    /\ resetLog = [called |-> FALSE, before |-> HandlerInit, after |-> HandlerInit]
    /\ parse = ParseStart
    /\ cmd \in CmdStarts({<<>>, <<<<Letter>>>>}, {<<>>, <<1, 1>>}, {FALSE}, {TRUE},
                         MaxInput)

SpecFollowup == InitFollowup /\ [][NextSend]_vars

\* ------------------------------------------------------------ properties

Pos(id) == CHOOSE i \in 1..Len(msgs) : msgs[i].id = id

\* C1: whenever SendMessage has called the provider, the human message of
\* that call is already a message of the thread (so a failed or cancelled
\* provider call leaves it there).
C1_HumanPersistedBeforeProvider ==
    \A p \in Procs :
        g[p].pc = "sm_await" =>
            \E i \in 1..Len(msgs) :
                /\ msgs[i].role = "human"
                /\ msgs[i].thread = g[p].ThreadID
                /\ msgs[i].id = g[p].userID

\* C2: once the signal was raised while the provider response was awaited,
\* the turn reports the cancellation (any error return is taken as such a
\* report, a successful return is not) and no assistant message is persisted
\* from then on.
C2_CancelAbandonsTurn ==
    \A p \in Procs :
        cancelMark[p] # NilID =>
            /\ cliResult[p] # "ok"
            /\ \A i \in 1..Len(msgs) :
                   msgs[i].id >= cancelMark[p] => msgs[i].role # "assistant"

\* C3: two human messages of one thread that were sent without an explicit
\* parent never share their parent: the later one hangs below the earlier
\* turn's messages.
C3_TurnsSerialized ==
    \A i, j \in 1..Len(msgs) :
        /\ i < j
        /\ msgs[i].role = "human" /\ msgs[j].role = "human"
        /\ msgs[i].implicit /\ msgs[j].implicit
        /\ msgs[i].thread = msgs[j].thread
        => msgs[i].parent # msgs[j].parent

C9_AssistantIsChildOfHuman ==
    \A p \in Procs :
        g[p].pc = "ag_check" =>
            /\ g[p].aiID \in MsgIds /\ g[p].userID \in MsgIds
            /\ MsgById(g[p].aiID).role = "assistant"
            /\ MsgById(g[p].userID).role = "human"
            /\ MsgById(g[p].aiID).parent = MsgById(g[p].userID).id
            /\ MsgById(g[p].aiID).thread = MsgById(g[p].userID).thread
            /\ Pos(g[p].userID) < Pos(g[p].aiID)

C9_Witness == \E p \in Procs : g[p].pc = "ag_check" /\ g[p].aiID \in MsgIds

SeenIds ==
    {Unmarshal(chunks[j]).val[1].id :
        j \in {i \in 1..Len(chunks) :
                  chunks[i] \in CallChunks /\ Unmarshal(chunks[i]).val[1].hasId}}

StartsFor(id) ==
    Cardinality({i \in 1..Len(events) : events[i].kind = "start" /\ events[i].id = id})

\* C4: HandleFunctionCallStart has been called exactly once for every tool-call
\* id that appeared in a streamed chunk, in whatever order the ids arrived.
C4_StartOncePerId == \A id \in SeenIds : StartsFor(id) = 1

IsText(e) == e.kind = "text"

NotCall(c) == ChunkClass(c) # "callRecords"

\* C5: the probe never fails: what the callback returns is what the handler
\* it called last returned, and the chunks that are no non-empty array of call
\* records are exactly the data HandleTextChunk was given, unchanged, in order.
C5_ProbeNeverFails ==
    /\ chunks # <<>> => (events # <<>> /\ lastRet = Last(events).ret)
    /\ LET texts == SelectSeq(events, IsText)
           plain == SelectSeq(chunks, NotCall)
       IN  [i \in 1..Len(texts) |-> texts[i].data] = plain

C5_Witness ==
    /\ Len(chunks) >= 2
    /\ Last(chunks) = PartialChunk
    /\ chunks[Len(chunks) - 1] = EmptyArrayChunk
    /\ Last(events).kind = "text" /\ Last(events).data = PartialChunk
    /\ lastRet = "nil"

\* ---------------------------------------- properties of the formatter

FedWhole == fmtPos = Len(fmtIn)

SameAsOneCall == formatJSON(fmtH0, fmtIn) = [h |-> h, out |-> fmtOut]

C7_EscapedQuote ==
    \A i \in 1..Len(fmtTrace) :
        LET e == fmtTrace[i] IN
        /\ (e.char = Quote /\ e.before.escaped) =>
               (e.out = <<Quote>> /\ e.after.inQuote = e.before.inQuote)
        /\ (e.char = Quote /\ ~e.before.escaped) =>
               (e.out = <<>> /\ e.after.inQuote = ~e.before.inQuote)
        /\ e.char # Quote => e.after.inQuote = e.before.inQuote
        /\ (i > 1 /\ fmtTrace[i - 1].char = Backslash /\ ~fmtTrace[i - 1].before.escaped)
               => e.before.escaped

C7_Witness ==
    \E i \in 2..Len(fmtTrace) :
        /\ fmtTrace[i].char = Quote
        /\ fmtTrace[i].first
        /\ fmtTrace[i - 1].char = Backslash
        /\ ~fmtTrace[i - 1].before.escaped
        /\ fmtTrace[i].before.inQuote
        /\ fmtTrace[i].out = <<Quote>>
        /\ fmtTrace[i].after.inQuote

\* C11: the context handed to the provider is the ancestor chain of the
\* reference message, from the root of its branch down to it, oldest first,
\* each part with its message's role, followed by the new human content as
\* the last part; on a thread without messages it is the new content alone.
C11_ContextIsAncestorChain ==
    \A p \in Procs :
        g[p].pc = "sm_await" =>
            LET sent == g[p].sent
                n == Len(sent) - 1
            IN  /\ n >= 0
                /\ sent[n + 1] = ContentPart
                /\ (g[p].ParentID = NilID) = (n = 0)
                /\ ThreadMsgs(g[p].ThreadID) = <<>> => n = 0
                /\ n > 0 => sent[n].of = g[p].ParentID
                /\ n > 0 => MsgById(sent[1].of).parent = NilID
                /\ \A i \in 1..n :
                       /\ sent[i].of \in MsgIds
                       /\ MsgById(sent[i].of).thread = g[p].ThreadID
                       /\ sent[i].role =
                            (IF MsgById(sent[i].of).role = "assistant"
                             THEN "ai" ELSE "human")
                       /\ i < n => MsgById(sent[i + 1].of).parent = sent[i].of

\* a branch: the reference is not the latest message of its thread
C11_Witness ==
    \E p \in Procs :
        /\ g[p].pc = "sm_await"
        /\ Len(g[p].sent) >= 3
        /\ g[p].ParentID # Last(ThreadMsgs(g[p].ThreadID)).id

\* ------------------------------------------- properties of the store

\* the messages of the thread of message id
InThreadOf(id) == ThreadMsgs(MsgById(id).thread)

\* C12: every parent that is set is a message that exists, and following the
\* parent links from a message reaches a root in at most as many steps as
\* its thread has messages.
C12_ParentChainsEnd ==
    \A id \in MsgIds :
        /\ MsgById(id).parent # NilID => MsgById(id).parent \in MsgIds
        /\ LET c == Chain(id, Len(InThreadOf(id)))
           IN  /\ c # <<>>
               /\ c[1].parent = NilID
               /\ Last(c).id = id

\* messages were deleted and a later turn was added to what was left
C12_Witness ==
    \E i, j \in 1..Len(msgs) :
        /\ msgs[j].parent = msgs[i].id
        /\ \E d \in 1..nextId :
               d \notin MsgIds /\ msgs[i].id < d /\ d < msgs[j].id

\* the explicit ParentID of the running call names a message of another thread
ForeignParent(p) ==
    /\ g[p].ParentID \in MsgIds
    /\ MsgById(g[p].ParentID).thread # g[p].ThreadID

C14_NoToolCallsOnHuman ==
    \A i \in 1..Len(msgs) :
        /\ msgs[i].role = "human" => msgs[i].tools = 0
        /\ msgs[i].tools > 0 => msgs[i].role = "assistant"

\* an assistant message with tool calls, and the human follow-up below it
C14_Witness ==
    \E i, j \in 1..Len(msgs) :
        /\ msgs[i].role = "assistant" /\ msgs[i].tools > 0
        /\ msgs[j].role = "human" /\ msgs[j].parent = msgs[i].id

\* C18: when sendMessage has returned (with success, an error or Cancelled),
\* the goroutine it started has finished.
C18_NoTaskOutlivesTurn ==
    \A p \in Procs : cliResult[p] # "none" => g[p].pc = "done"

\* --------------------------------------- properties of the llm client

\* the text of a reply: the content of its choices, in order
RECURSIVE ReplyText(_)
ReplyText(choices) ==
    IF choices = <<>> THEN <<>>
    ELSE choices[1].Content \o ReplyText(Tail(choices))

\* the tool calls of a reply, by position
ReplyToolCalls(choices) ==
    {<<i, j>> \in (1..Len(choices)) \X (1..3) : j <= Len(choices[i].ToolCalls)}

\* C15: a provider error or a reply without choices makes SendMessage return
\* an error, a provider error wrapped in it; a call that returns no error
\* returns the text of the reply and each of its tool calls, in order.
C15_NothingDropped ==
    response.returned =>
        /\ reply.err => (Len(response.err) = 2 /\ response.err[2] = "cause")
        /\ (~reply.err /\ reply.Choices = <<>>) => response.err # <<>>
        /\ response.err = <<>> =>
               /\ ~reply.err /\ reply.Choices # <<>>
               /\ response.TextResponse = ReplyText(reply.Choices)
               /\ Len(response.ToolCalls) = Cardinality(ReplyToolCalls(reply.Choices))
               /\ \A ij \in ReplyToolCalls(reply.Choices) :
                      \E k \in 1..Len(response.ToolCalls) :
                          response.ToolCalls[k] = reply.Choices[ij[1]].ToolCalls[ij[2]]

\* C16: a provider name outside openai, anthropic, googleai makes NewClient
\* fail with the unsupported-provider error and return no client, message.New
\* returns that error and no service, and no provider call is ever made.
C16_UnsupportedProvider ==
    (newResult.returned /\ modelCfg \notin {"openai", "anthropic", "googleai"}) =>
        /\ ~newResult.service
        /\ newResult.llm = "nil"
        /\ Len(newResult.err) = 2 /\ newResult.err[2] = "unsupported provider"
        /\ ~response.returned

C16_Witness ==
    /\ newResult.returned
    /\ modelCfg = "ollama"
    /\ ~sdkErr

C19_CallStartsFromInitialState ==
    (\E i \in 1..Len(events) : events[i].kind = "start") => fmtH0 = HandlerInit

\* C20: Reset leaves the handler outside a quoted string with no escape
\* pending, and its indent depth, array context and expecting-value flag as
\* they were before the call.
C20_ResetFrame ==
    resetLog.called =>
        /\ h = resetLog.after
        /\ ~resetLog.after.inQuote
        /\ ~resetLog.after.escaped
        /\ resetLog.after.indentLevel = resetLog.before.indentLevel
        /\ resetLog.after.inArray = resetLog.before.inArray
        /\ resetLog.after.isValue = resetLog.before.isValue

C20_Witness ==
    /\ resetLog.called
    /\ resetLog.before.inQuote /\ resetLog.before.escaped
    /\ resetLog.before.indentLevel > 0
    /\ resetLog.before.inArray /\ resetLog.before.isValue

\* ------------------------------ properties of the formatter's nesting

\* a character handled outside a quoted string, with no escape pending
Structural(e) == ~e.before.inQuote /\ ~e.before.escaped

\* the brackets open after the first n characters handled, innermost last;
\* a handler that starts inside an array starts with that array open
RECURSIVE OpenBrackets(_)
OpenBrackets(n) ==
    IF n = 0 THEN (IF fmtH0.inArray THEN <<"array">> ELSE <<>>)
    ELSE LET e == fmtTrace[n]
             open == OpenBrackets(n - 1)
         IN  CASE Structural(e) /\ e.char = LBracket -> Append(open, "array")
               [] Structural(e) /\ e.char = LBrace -> Append(open, "object")
               [] Structural(e) /\ e.char \in {RBracket, RBrace} /\ open # <<>> ->
                      SubSeq(open, 1, Len(open) - 1)
               [] OTHER -> open

\* character n is a ] that closes an array that lies directly in an array
ClosesNestedArray(n) ==
    /\ Structural(fmtTrace[n])
    /\ fmtTrace[n].char = RBracket
    /\ Len(OpenBrackets(n - 1)) >= 2
    /\ Last(OpenBrackets(n - 1)) = "array"
    /\ Last(OpenBrackets(n)) = "array"

\* C21: after a ] that closes an array nested in another array the handler
\* is still in array context, and a comma that follows emits a newline, the
\* indent and a list-item marker.
C21_ArrayContextPerLevel ==
    \A n \in 1..Len(fmtTrace) :
        ClosesNestedArray(n) =>
            /\ fmtTrace[n].after.inArray
            /\ (n < Len(fmtTrace) /\ fmtTrace[n + 1].char = Comma) =>
                   fmtTrace[n + 1].out =
                       <<Newline>> \o writeIndent(fmtTrace[n + 1].before.indentLevel)
                           \o <<Dash, Space>>

\* ------------------------------- properties of the persisted tool calls

\* the place of the tool call at position ij among the tool calls of a reply
Rank(choices, ij) ==
    Cardinality({xy \in ReplyToolCalls(choices) :
                    xy[1] < ij[1] \/ (xy[1] = ij[1] /\ xy[2] <= ij[2])})

\* C22: the assistant message stored for a response with tool calls carries
\* one record per tool call of the reply, in the order of the choices and of
\* the calls within each choice, each with the id, the name and the argument
\* JSON (as a JSON value) of its tool call.
C22_ToolCallsPersisted ==
    (persisted.returned /\ persisted.stored) =>
        LET calls == ReplyToolCalls(reply.Choices)
        IN  /\ Len(persisted.ToolCalls) = Cardinality(calls)
            /\ persisted.Role = "assistant"
            /\ \A ij \in calls :
                   LET rec == persisted.ToolCalls[Rank(reply.Choices, ij)]
                       tc == ToolCallFields(reply.Choices[ij[1]].ToolCalls[ij[2]])
                   IN  /\ rec.id = tc.ID
                       /\ rec.name = tc.Name
                       /\ rec.arguments.json = tc.Arguments.json

\* three tool calls from two choices, one with spaced arguments
C22_Witness ==
    /\ persisted.returned /\ persisted.stored
    /\ Len(reply.Choices) = 2
    /\ Len(persisted.ToolCalls) = 3
    /\ persisted.ToolCalls[1].id = "id1"
    /\ persisted.ToolCalls[3].id = "id3"

\* ------------------------------------ properties of the chunk delivery

\* the HandleTextChunk and HandleFunctionCallChunk calls, in order
Deliveries == SelectSeq(events, LAMBDA e : e.kind # "start")

\* the last thing the callback did was a HandleFunctionCallStart that failed
StartFailed == events # <<>> /\ Last(events).kind = "start"

\* C23: the chunks, in arrival order, are each handed to exactly one of
\* HandleTextChunk (what is no call, unchanged) and HandleFunctionCallChunk
\* (a call, with its arguments), except a chunk whose
\* HandleFunctionCallStart returned an error; a HandleFunctionCallStart
\* that returned no error is followed at once by the
\* HandleFunctionCallChunk of the same chunk; and where a start fired for a
\* call id, every fragment with that id is delivered after a start for it.
C23_OneDeliveryPerChunk ==
    /\ Len(Deliveries) = Len(chunks) - (IF StartFailed THEN 1 ELSE 0)
    /\ \A k \in 1..Len(Deliveries) :
           IF NotCall(chunks[k])
           THEN Deliveries[k].kind = "text" /\ Deliveries[k].data = chunks[k]
           ELSE /\ Deliveries[k].kind = "chunk"
                /\ Deliveries[k].data = CallRecords(chunks[k])[1].args
    /\ \A i \in 1..Len(events) :
           events[i].kind = "start" =>
               IF events[i].ret = "nil"
               THEN i < Len(events) /\ events[i + 1].kind = "chunk"
               ELSE i = Len(events) /\ ~streamOpen
    /\ \A k \in 1..Len(Deliveries) :
           (/\ chunks[k] \in CallChunks
            /\ CallRecords(chunks[k])[1].hasId
            /\ StartsFor(CallRecords(chunks[k])[1].id) > 0) =>
               \E s, d \in 1..Len(events) :
                   /\ s < d
                   /\ events[s].kind = "start"
                   /\ events[s].id = CallRecords(chunks[k])[1].id
                   /\ events[d].kind = "chunk"
                   /\ Cardinality({q \in 1..d : events[q].kind # "start"}) = k

\* a text, then a call announced and delivered, then a call whose start fails
C23_Witness ==
    /\ Len(chunks) = 3
    /\ chunks[1] = TextChunk /\ chunks[2] = CallAChunk /\ chunks[3] = CallBChunk
    /\ Len(events) = 4
    /\ events[2].kind = "start" /\ events[3].kind = "chunk"
    /\ events[4].kind = "start" /\ events[4].ret = "err"

\* C24: after every prefix of a well-formed JSON text fed to a new handler
\* the indent depth is the number of [ and { opened outside strings and not
\* yet closed, it is never negative, and after a complete JSON object all
\* five fields of the handler have their initial values
C24_DepthIsOpenBrackets ==
    /\ h.indentLevel = Len(parse.stack)
    /\ h.indentLevel >= 0
    /\ (parse.expect = "done" /\ parse.top = "object") => h = HandlerInit

\* an object holding an array has been printed to its end
C24_Witness ==
    /\ parse.expect = "done"
    /\ parse.top = "object"
    /\ parse.deepest >= 2
    /\ h = HandlerInit

\* the checks of lines 179-187 refuse this command
InvalidInput(c) == c.message = <<>> \/ (c.continueFlag /\ c.threadFlag # <<>>)

\* the call that selects the thread for these flags
SelectBy(c) ==
    IF c.threadFlag # <<>> THEN "FindThreadByPartialID"
    ELSE IF c.continueFlag THEN "GetActiveThread"
    ELSE "NewThread"

\* threadID is the thread the flags name
RightThread(c) ==
    CASE SelectBy(c) = "FindThreadByPartialID" ->
            /\ c.threadID \in c.before
            /\ Matching(c.before, c.threadFlag) = {c.threadID}
            /\ threads = c.before
      [] SelectBy(c) = "GetActiveThread" ->
            /\ c.order # <<>>
            /\ c.threadID = c.order[Len(c.order)]
            /\ threads = c.before
      [] OTHER ->
            /\ c.threadID \notin c.before
            /\ threads = c.before \cup {c.threadID}

\* nothing was done to any thread and nothing was sent
Untouched(c) == c.err # "nil" /\ threads = c.before /\ c.sentLog = <<>>

\* C25 as stated: a send command whose message is empty or that has both
\* --thread and --continue returns an error without a call to the store,
\* a new thread or a message sent; every other command selects exactly one
\* thread, by prefix, the most recent, or a new one
C25_ExactlyOneThread ==
    cmd.pc # "idle" =>
        IF InvalidInput(cmd)
        THEN Untouched(cmd) /\ cmd.calls = <<>>
        ELSE /\ cmd.calls = <<SelectBy(cmd)>>
             /\ cmd.threadID # NoThread
             /\ RightThread(cmd)

\* C25 amended: as C25, but a command with valid input whose one call to
\* select the thread fails (no or several threads with the prefix, no
\* thread to continue, a thread that cannot be created) returns that error
\* with no thread selected and nothing sent
C25_OneThreadUnlessLookupFails ==
    cmd.pc # "idle" =>
        IF InvalidInput(cmd)
        THEN Untouched(cmd) /\ cmd.calls = <<>>
        ELSE /\ cmd.calls = <<SelectBy(cmd)>>
             /\ IF cmd.threadID # NoThread
                THEN RightThread(cmd)
                ELSE /\ Untouched(cmd)
                     /\ SelectBy(cmd) = "FindThreadByPartialID" =>
                            Cardinality(Matching(cmd.before, cmd.threadFlag)) # 1
                     /\ SelectBy(cmd) = "GetActiveThread" => cmd.order = <<>>

\* --thread named one of two threads by a prefix and the message was sent
C25_Witness ==
    /\ cmd.pc = "done"
    /\ ~InvalidInput(cmd)
    /\ cmd.threadFlag # <<>>
    /\ Cardinality(cmd.before) = 2
    /\ cmd.threadID # NoThread
    /\ Len(cmd.sentLog) = 1

\* the lines of a text, a last one without a newline included
RECURSIVE SplitLines(_)
SplitLines(str) ==
    IF str = <<>> THEN <<>>
    ELSE IF ReadString(str).err = "EOF" THEN <<str>>
    ELSE <<ReadString(str).data>> \o SplitLines(ReadString(str).rest)

RECURSIVE NonBlank(_)
NonBlank(lines) ==
    IF lines = <<>> THEN <<>>
    ELSE (IF TrimSpace(lines[1]) = <<>> THEN <<>> ELSE <<TrimSpace(lines[1])>>)
             \o NonBlank(Tail(lines))

\* C26: in followup mode every line of standard input that is not empty
\* after trimming, a last line without a newline included, is sent on the
\* thread of the first message, in input order; blank lines are skipped;
\* no line is sent after a failing turn
C26_FollowupSendsEveryLine ==
    (/\ cmd.pc = "done"
     /\ cmd.followupFlag
     /\ cmd.sentLog # <<>>
     /\ cmd.sentLog[1].ok
     /\ cmd.err # "failed to read input") =>
        LET want == NonBlank(SplitLines(RestAfterMessage(cmd)))
            got == Tail(cmd.sentLog)
        IN  /\ \A i \in 1..Len(got) : got[i].thread = cmd.threadID
            /\ Len(got) <= Len(want)
            /\ \A i \in 1..Len(got) : got[i].content = want[i]
            /\ \A i \in 1..(Len(got) - 1) : got[i].ok
            /\ (\A i \in 1..Len(got) : got[i].ok) => Len(got) = Len(want)

====
